---------------------------- MODULE Spec2Model ----------------------------
(***************************************************************************)
(* LocalFS: POSIX-style paths and a current-directory navigator on top of  *)
(* File System Access API directory handles (src/src/LocalFS.ts).          *)
(*                                                                         *)
(* Strings are sequences of one-character strings, so that splitting and   *)
(* joining on the separator are computed and not assumed.  A path array is *)
(* a sequence of such strings.  The empty string is the empty sequence.    *)
(***************************************************************************)
EXTENDS Integers, Sequences, FiniteSets

(***************************************************************************)
(* Bounds of the model.                                                    *)
(***************************************************************************)
\* longest path array handed to normalize, and longest concatenation of the
\* arguments handed to resolve, in the path-algebra specification
MaxLen == 4
\* most arguments of one resolve call in the path-algebra specification
MaxArgs == 2
\* longest path array handed to a navigator call
MaxArgLen == 2
\* longest path string handed to a navigator call
MaxStrLen == 2
\* most entries the backend lets the calls create before it reports its quota
MaxCreate == 1
\* most navigator calls in flight at once
MaxCalls == 2
\* most bytes the backend lets one file hold
MaxSize == 2

(***************************************************************************)
(* Path algebra (src/src/LocalFS.ts 232-319).                              *)
(***************************************************************************)
ROOT_NAME == << >>
PATH_SEPERATOR == "/"

\* the two control segments "." and ".."
DOT == <<".">>
DOTDOT == <<".", ".">>

\* the literal entry names of the model
Names == {<<"a">>, <<"b">>}

\* every segment a path array of the model is made of
Segs == Names \cup {ROOT_NAME, DOT, DOTDOT}

SeqsUpTo(S, n) == UNION {[1..k -> S] : k \in 0..n}

\* res.pop()
Pop(s) == SubSeq(s, 1, Len(s) - 1)

\* normalize, lines 246-248: the locals before the loop
NormInit == [res |-> << >>, segCount |-> 0, isAbsolute |-> FALSE, returned |-> FALSE]

\* a plausible slip: ".." pops whatever is accumulated, the root sentinel too
DotDotAbsolutePopsRoot(st) == [st EXCEPT !.res = Pop(@)]

\* a plausible slip: ".." at the root is kept, as in the upstream mode
DotDotAbsoluteKeepsDotDot(st) ==
    IF Len(st.res) > 1 THEN [st EXCEPT !.res = Pop(@)]
    ELSE [st EXCEPT !.res = Append(@, DOTDOT)]

\* normalize, line 259: ".." in an absolute path; at the root none of the
\* branches of lines 259-268 applies and the segment is dropped
DotDotAbsolute(st) ==
    IF Len(st.res) > 1 THEN [st EXCEPT !.res = Pop(@)] ELSE st

\* a plausible slip: ".." pops whatever was pushed last, an accumulated ".."
\* too (res.length instead of segCount)
DotDotUpstreamPopsAny(st) ==
    IF Len(st.res) > 0
      THEN [st EXCEPT !.res = Pop(@), !.segCount = IF @ > 0 THEN @ - 1 ELSE 0]
      ELSE [st EXCEPT !.res = Append(@, DOTDOT)]

\* normalize, lines 260-266: ".." in a relative path, upstream allowed
DotDotUpstream(st) ==
    IF st.segCount > 0
      THEN [st EXCEPT !.res = Pop(@), !.segCount = @ - 1]
      ELSE [st EXCEPT !.res = Append(@, DOTDOT)]

\* a plausible slip: ".." with nothing accumulated is dropped, as at the root
DotDotRelativeClamps(st) ==
    IF Len(st.res) > 0 THEN [st EXCEPT !.res = Pop(@)] ELSE st

\* normalize, lines 267-268: ".." in a relative path, upstream not allowed
DotDotRelative(st) ==
    IF Len(st.res) > 0 THEN [st EXCEPT !.res = Pop(@)]
    ELSE [st EXCEPT !.res = << >>, !.returned = TRUE]

\* normalize, lines 253-273: the loop body for index i (0-based, i <= l);
\* path[l] is undefined, which is falsy like the empty string
NormStep(st, path, allowUpstream, i) ==
    IF i >= Len(path) THEN st
    ELSE LET p == path[i + 1] IN
      IF i = 0 /\ p = ROOT_NAME
        THEN [st EXCEPT !.isAbsolute = TRUE, !.res = Append(@, p)]
      ELSE IF p = << >> \/ p = DOT THEN st
      ELSE IF p = DOTDOT THEN
        IF st.isAbsolute THEN DotDotAbsolute(st)
        ELSE IF allowUpstream THEN DotDotUpstream(st)
        ELSE DotDotRelative(st)
      ELSE [st EXCEPT !.res = Append(@, p), !.segCount = @ + 1]

\* a plausible slip: the loop stops one segment short (i < l - 1)
NormDoneOneShort(st, path, i) == st.returned \/ i >= Len(path) - 1

\* normalize, lines 252 and 268: the loop is over (i <= l fails, or return [])
NormDone(st, path, i) == st.returned \/ i > Len(path)

RECURSIVE NormLoop(_, _, _, _)
NormLoop(st, path, allowUpstream, i) ==
    IF NormDone(st, path, i) THEN st.res
    ELSE NormLoop(NormStep(st, path, allowUpstream, i), path, allowUpstream, i + 1)

normalize(path, allowUpstream) == NormLoop(NormInit, path, allowUpstream, 0)

\* resolve, lines 289-292: the loop body for argument i (1-based here)
FoldStep(f, args, i) ==
    LET path == args[i] IN
    IF Len(path) = 0 THEN f
    ELSE [resolvedPath |-> path \o f.resolvedPath,
          resolvedAbsolute |-> (path[1] = ROOT_NAME)]

\* a plausible slip: the fold takes every argument (i >= 0 alone)
FoldDoneAllArgs(f, i) == i < 1

\* resolve, line 288: the loop is over (!resolvedAbsolute && i >= 0 fails)
FoldDone(f, i) == f.resolvedAbsolute \/ i < 1

RECURSIVE FoldLoop(_, _, _)
FoldLoop(f, args, i) ==
    IF FoldDone(f, i) THEN f.resolvedPath
    ELSE FoldLoop(FoldStep(f, args, i), args, i - 1)

FoldInit == [resolvedPath |-> << >>, resolvedAbsolute |-> FALSE]

\* a plausible slip: the normalized path is returned as it is, empty or not
ResolveResultAsIs(resolvedPath) == resolvedPath

\* resolve, lines 295-298: what is returned for a normalized path
ResolveResult(resolvedPath) ==
    IF Len(resolvedPath) = 0 THEN <<DOT>> ELSE resolvedPath

resolve(args) ==
    ResolveResult(normalize(FoldLoop(FoldInit, args, Len(args)), TRUE))

\* String.prototype.split on one separator character
RECURSIVE split(_, _)
split(s, sep) ==
    IF \A k \in 1..Len(s) : s[k] # sep THEN <<s>>
    ELSE LET k == CHOOSE j \in 1..Len(s) :
                    s[j] = sep /\ \A h \in 1..(j - 1) : s[h] # sep
         IN <<SubSeq(s, 1, k - 1)>> \o split(SubSeq(s, k + 1, Len(s)), sep)

\* a plausible slip: the array is returned as split gives it
KeepTrailingEmpty(arr) == arr

\* toArray, line 312: if(arr.at(-1) === ""){ arr.pop(); }
DropTrailingEmpty(arr) ==
    IF arr[Len(arr)] = << >> THEN Pop(arr) ELSE arr

toArray(path) == DropTrailingEmpty(split(path, PATH_SEPERATOR))

\* Array.prototype.join
RECURSIVE join(_, _)
join(path, sep) ==
    IF Len(path) = 0 THEN << >>
    ELSE IF Len(path) = 1 THEN path[1]
    ELSE path[1] \o <<sep>> \o join(Tail(path), sep)

\* a plausible slip: the root-only array is joined like any other
toStringJoinOnly(path) == join(path, PATH_SEPERATOR)

toString(path) ==
    IF Len(path) = 1 /\ path[1] = ROOT_NAME THEN <<PATH_SEPERATOR>>
    ELSE join(path, PATH_SEPERATOR)


(***************************************************************************)
(* State.                                                                  *)
(*   pa          the path-algebra call in progress (normalize or resolve)  *)
(*   dirs, files the backend tree: a node is the sequence of entry names   *)
(*               from the backend root, << >> being the root directory     *)
(*   content     the bytes of the files that hold any                      *)
(*   capacity    the entries the backend has room for beyond the first     *)
(*   rootHandle  LocalFS.rootHandle                                        *)
(*   current     LocalFS.current: {handle, path}                           *)
(*   procs       the navigator calls in flight, one record per slot        *)
(***************************************************************************)
VARIABLES pa, dirs, files, content, capacity, rootHandle, current, procs

vars == <<pa, dirs, files, content, capacity, rootHandle, current, procs>>
navVars == <<dirs, files, content, capacity, rootHandle, current, procs>>

(***************************************************************************)
(* The path-algebra calls, one loop iteration per step.                    *)
(***************************************************************************)
\* the example of normalize's documentation, ./folder/../../../../file
Folder == <<"f", "o", "l", "d", "e", "r">>
File == <<"f", "i", "l", "e">>
DocExample == <<DOT, Folder, DOTDOT, DOTDOT, DOTDOT, DOTDOT, File>>

NormalizeInputs == SeqsUpTo(Segs, MaxLen) \cup {DocExample}

\* s cut into n consecutive pieces at the places c[1] <= ... <= c[n-1]
CutAt(s, n, c) ==
    [k \in 1..n |->
        SubSeq(s, (IF k = 1 THEN 0 ELSE c[k - 1]) + 1,
                  IF k = n THEN Len(s) ELSE c[k])]

Cuts(s, n) ==
    {c \in [1..(n - 1) -> 0..Len(s)] :
        \A k \in 1..(n - 2) : c[k] <= c[k + 1]}

\* a name that holds the separator
SlashName == <<"a", PATH_SEPERATOR, "b">>

\* the characters of the path strings of the model
Chars == {PATH_SEPERATOR, ".", "a"}

\* arr is the array toArray has split; from is the array whose rendering
\* toArray was handed, when the caller had it from toString
PaIdle ==
    [fn |-> "none", args |-> << >>, allowUpstream |-> FALSE, pc |-> "idle",
     f |-> FoldInit, fi |-> 0, path |-> << >>, i |-> 0, st |-> NormInit,
     result |-> << >>, arr |-> << >>, from |-> << >>, rendered |-> FALSE]

ToArrayCall(str) ==
    [PaIdle EXCEPT !.fn = "toArray", !.args = <<str>>, !.pc = "split"]

ToStringCall(path) ==
    [PaIdle EXCEPT !.fn = "toString", !.args = <<path>>, !.pc = "toString"]

\* toArray, line 311: path.split(PATH_SEPERATOR)
ToArraySplit ==
    /\ pa.pc = "split"
    /\ pa' = [pa EXCEPT !.pc = "pop", !.arr = split(pa.args[1], PATH_SEPERATOR)]
    /\ UNCHANGED navVars

\* toArray, lines 312-313: the trailing empty element is dropped; return
ToArrayReturn ==
    /\ pa.pc = "pop"
    /\ pa' = [pa EXCEPT !.pc = "done", !.result = DropTrailingEmpty(pa.arr)]
    /\ UNCHANGED navVars

\* toString, lines 317-318
ToStringReturn ==
    /\ pa.pc = "toString"
    /\ pa' = [pa EXCEPT !.pc = "done", !.result = toString(pa.args[1])]
    /\ UNCHANGED navVars

\* the caller hands the string toString returned to toArray
ToArrayOfString ==
    /\ pa.fn = "toString"
    /\ pa.pc = "done"
    /\ pa' = [ToArrayCall(pa.result) EXCEPT !.from = pa.args[1], !.rendered = TRUE]
    /\ UNCHANGED navVars

NormalizeCall(path, allowUpstream) ==
    [PaIdle EXCEPT !.fn = "normalize", !.args = <<path>>,
                   !.allowUpstream = allowUpstream, !.pc = "normalize",
                   !.path = path]

ResolveCall(args) ==
    [PaIdle EXCEPT !.fn = "resolve", !.args = args, !.pc = "fold",
                   !.fi = Len(args)]

\* resolve, lines 288-293: one iteration of the fold
ResolveFold ==
    /\ pa.pc = "fold"
    /\ ~FoldDone(pa.f, pa.fi)
    /\ pa' = [pa EXCEPT !.f = FoldStep(pa.f, pa.args, pa.fi), !.fi = @ - 1]
    /\ UNCHANGED navVars

\* resolve, line 295: normalize(resolvedPath, true) is called
ResolveNormalize ==
    /\ pa.pc = "fold"
    /\ FoldDone(pa.f, pa.fi)
    /\ pa' = [pa EXCEPT !.pc = "normalize", !.path = pa.f.resolvedPath,
                        !.allowUpstream = TRUE, !.i = 0, !.st = NormInit]
    /\ UNCHANGED navVars

\* normalize, lines 252-274: one iteration of the loop
NormalizeStep ==
    /\ pa.pc = "normalize"
    /\ ~NormDone(pa.st, pa.path, pa.i)
    /\ pa' = [pa EXCEPT !.st = NormStep(pa.st, pa.path, pa.allowUpstream, pa.i),
                        !.i = @ + 1]
    /\ UNCHANGED navVars

\* normalize, lines 268 and 275: return
NormalizeReturn ==
    /\ pa.pc = "normalize"
    /\ NormDone(pa.st, pa.path, pa.i)
    /\ pa' = IF pa.fn = "normalize"
               THEN [pa EXCEPT !.pc = "done", !.result = pa.st.res]
               ELSE [pa EXCEPT !.pc = "return", !.f.resolvedPath = pa.st.res]
    /\ UNCHANGED navVars

\* resolve, lines 297-298: return
ResolveReturn ==
    /\ pa.pc = "return"
    /\ pa' = [pa EXCEPT !.pc = "done", !.result = ResolveResult(pa.f.resolvedPath)]
    /\ UNCHANGED navVars

(***************************************************************************)
(* The backend tree behind the FileSystemDirectoryHandle objects.  A       *)
(* handle is the node it stands for; the tree only grows.                  *)
(***************************************************************************)
\* the root directory of the backend tree
RootNode == << >>

\* the tree the navigator is constructed on:  /a  /a/a (a file)  /a/b  /b
InitDirs == {RootNode, <<<<"a">>>>, <<<<"a">>, <<"b">>>>, <<<<"b">>>>}
InitFiles == {<<<<"a">>, <<"a">>>>}

\* the bytes a write hands over are "x" or "y"; the file /a/a holds "x"
Bytes == {"x", "y"}
InitContent == [f \in InitFiles |-> <<"x">>]

\* the bytes of file (a file that was never written holds none)
ContentOf(file) == IF file \in DOMAIN content THEN content[file] ELSE << >>

\* entries created since construction
Created == Cardinality(dirs \cup files) - Cardinality(InitDirs \cup InitFiles)

\* the File System API rejects these entry names with a TypeError
ValidName(name) ==
    /\ name \notin {<< >>, DOT, DOTDOT}
    /\ \A k \in 1..Len(name) : name[k] # PATH_SEPERATOR

Rejected(err) == [ok |-> FALSE, handle |-> RootNode, err |-> err, created |-> FALSE]

\* what an entry request for child `name` of `dir` settles with, where `same`
\* holds the entries of the requested kind and `other` those of the other kind
Lookup(dir, name, create, same, other) ==
    LET node == Append(dir, name) IN
    IF ~ValidName(name) THEN Rejected("TypeError")
    ELSE IF node \in same
      THEN [ok |-> TRUE, handle |-> node, err |-> "", created |-> FALSE]
    ELSE IF node \in other THEN Rejected("TypeMismatchError")
    ELSE IF ~create THEN Rejected("NotFoundError")
    ELSE IF Created >= capacity THEN Rejected("QuotaExceededError")
    ELSE [ok |-> TRUE, handle |-> node, err |-> "", created |-> TRUE]

\* dir.getDirectoryHandle(name, {create})
getDirectoryHandle(dir, name, create) == Lookup(dir, name, create, dirs, files)

\* dir.getFileHandle(name, {create})
getFileHandle(dir, name, create) == Lookup(dir, name, create, files, dirs)

(***************************************************************************)
(* The navigator (src/src/LocalFS.ts 3-97).                                *)
(***************************************************************************)
Procs == 1..MaxCalls

\* a path argument is a string or an array (string|string[])
ArrayArgs == {[isArray |-> TRUE, val |-> v] : v \in SeqsUpTo(Segs, MaxArgLen)}
StringArgs == {[isArray |-> FALSE, val |-> v] : v \in SeqsUpTo(Chars, MaxStrLen)}
PathArgs == ArrayArgs \cup StringArgs

\* the path arguments of the calls that create: absolute or relative arrays
\* of names
CreateArgs ==
    {[isArray |-> TRUE, val |-> v] : v \in SeqsUpTo(Names \cup {ROOT_NAME}, MaxArgLen)}

\* the path arguments of the calls that may overlap:  a  ..  /a/b
OverlapArgs ==
    {[isArray |-> TRUE, val |-> v] :
        v \in {<<<<"a">>>>, <<DOTDOT>>, <<ROOT_NAME, <<"a">>, <<"b">>>>}}

\* Array.isArray(path) ? path : _path.toArray(path)
AsArray(path) == IF path.isArray THEN path.val ELSE toArray(path.val)

resolvePath(cd, path) == resolve(<<cd, AsArray(path)>>)

\* a plausible slip: only the lengths are compared
isChildOrEqualByLength(cd, path) == Len(path) >= Len(cd)

isChildOrEqual(cd, path) ==
    IF Len(path) < Len(cd) THEN FALSE
    ELSE \A i \in 1..Len(cd) : path[i] = cd[i]

\* a plausible slip: the walk always takes the whole path, from index 1
WalkFirstIndexOne(isChild, cd) == 1

\* getDir line 48, getFile line 63: the first index of the walk (0-based)
WalkFirstIndex(isChild, cd) == IF isChild THEN Len(cd) ELSE 1

\* an argument that is a path or a handle (path instanceof FileSystem...Handle)
PathTarget(val) ==
    [isHandle |-> FALSE, handle |-> RootNode, path |-> [isArray |-> TRUE, val |-> val]]
StringTarget(val) ==
    [isHandle |-> FALSE, handle |-> RootNode, path |-> [isArray |-> FALSE, val |-> val]]
HandleTarget(node) ==
    [isHandle |-> TRUE, handle |-> node, path |-> [isArray |-> TRUE, val |-> << >>]]

\* no writable stream
NoStream == [state |-> "none", file |-> RootNode, pos |-> 0, buf |-> << >>, closes |-> 0]

\* the locals of a call.  phase counts the handles the call has obtained;
\* src and to are the handles of the source and the destination; w is the
\* writable stream of the call; caught is the error the finally block of
\* write rethrows; tasks are the promises the call has started; entries is
\* what ls has enumerated; hadSelfCopy tells whether the destination of
\* copyDir held an entry where a copy of itself would be, before the copy;
\* str is the string that pwd or resolve returns.
IdleProc ==
    [op |-> "idle", pc |-> "idle", path |-> [isArray |-> TRUE, val |-> << >>],
     create |-> FALSE, absolutePath |-> << >>, isChild |-> FALSE,
     dir |-> RootNode, i |-> 0, ret |-> RootNode, err |-> "", calls |-> << >>,
     before |-> [handle |-> RootNode, path |-> << >>],
     phase |-> 0, src |-> RootNode, to |-> RootNode, data |-> << >>,
     append |-> FALSE, keep |-> FALSE, size |-> 0, w |-> NoStream,
     caught |-> "", tasks |-> << >>, dest |-> HandleTarget(RootNode),
     filter |-> FALSE, entries |-> << >>, hadSelfCopy |-> FALSE, str |-> << >>]

\* the calls that walk with getFile: getFile itself, write (line 148) and
\* copyFile (lines 172-173); the others walk with getDir
WalksToFile(q) == q.op \in {"getFile", "write", "copyFile"}

\* the bound of the walk: getDir line 48 (i < l), getFile line 63 (i < l-1)
WalkLimit(q) ==
    IF WalksToFile(q) THEN Len(q.absolutePath) - 1 ELSE Len(q.absolutePath)

\* where a call stands once the loop condition is evaluated: suspended at the
\* next getDirectoryHandle, or past the loop (getDir returns dir, line 52;
\* getFile requests the leaf, line 67)
Enter(q) ==
    IF q.i < WalkLimit(q) THEN [q EXCEPT !.pc = "walk"]
    ELSE IF WalksToFile(q) THEN [q EXCEPT !.pc = "leaf"]
    ELSE [q EXCEPT !.pc = "returned", !.ret = q.dir]

\* getDir lines 45-48, getFile lines 59-63: the call up to its first await.
\* calls is the list of the entry requests the call has issued; before is
\* the current-directory state the call found.
WalkStart(op, path, create) ==
    LET absolutePath == resolvePath(current.path, path)
        isChild == isChildOrEqual(current.path, absolutePath)
    IN Enter([IdleProc EXCEPT
                !.op = op, !.path = path, !.create = create,
                !.absolutePath = absolutePath, !.isChild = isChild,
                !.dir = IF isChild THEN current.handle ELSE rootHandle,
                !.i = WalkFirstIndex(isChild, current.path),
                !.before = current])

\* a plausible slip: getDir remembers the path it has resolved
GetDirCallStoresPath(p, path, create) ==
    /\ procs[p].pc = "idle"
    /\ procs' = [procs EXCEPT ![p] = WalkStart("getDir", path, create)]
    /\ current' = [current EXCEPT !.path = resolvePath(current.path, path)]
    /\ UNCHANGED <<pa, content, capacity, dirs, files, rootHandle>>

\* getDir lines 44-48: the call up to its first await
GetDirCall(p, path, create) ==
    /\ procs[p].pc = "idle"
    /\ procs' = [procs EXCEPT ![p] = WalkStart("getDir", path, create)]
    /\ UNCHANGED <<pa, content, capacity, dirs, files, rootHandle, current>>

GetFileCall(p, path, create) ==
    /\ procs[p].pc = "idle"
    /\ procs' = [procs EXCEPT ![p] = WalkStart("getFile", path, create)]
    /\ UNCHANGED <<pa, content, capacity, dirs, files, rootHandle, current>>

\* a plausible slip: the path is stored before the walk has succeeded
CdCallStoresPathFirst(p, path) ==
    /\ procs[p].pc = "idle"
    /\ procs' = [procs EXCEPT ![p] = WalkStart("cd", path, FALSE)]
    /\ current' = [current EXCEPT !.path = resolvePath(current.path, path)]
    /\ UNCHANGED <<pa, content, capacity, dirs, files, rootHandle>>

\* cd line 87: this.getDir(path) is called and awaited
CdCall(p, path) ==
    /\ procs[p].pc = "idle"
    /\ procs' = [procs EXCEPT ![p] = WalkStart("cd", path, FALSE)]
    /\ UNCHANGED <<pa, content, capacity, dirs, files, rootHandle, current>>

\* getDir line 49, getFile line 64: one getDirectoryHandle settles
WalkStep(p) ==
    LET q == procs[p]
        name == q.absolutePath[q.i + 1]
        r == getDirectoryHandle(q.dir, name, q.create)
        asked == Append(q.calls, [on |-> q.dir, name |-> name, kind |-> "dir"])
    IN /\ q.pc = "walk"
       /\ dirs' = IF r.ok THEN dirs \cup {r.handle} ELSE dirs
       /\ procs' = [procs EXCEPT ![p] =
            IF r.ok
              THEN Enter([q EXCEPT !.dir = r.handle, !.i = @ + 1, !.calls = asked])
              ELSE [q EXCEPT !.pc = "failed", !.err = r.err, !.calls = asked]]
       /\ UNCHANGED <<pa, content, capacity, files, rootHandle, current>>

\* getFile line 67: getFileHandle(absolutePath.at(-1), {create}) settles
LeafStep(p) ==
    LET q == procs[p]
        name == q.absolutePath[Len(q.absolutePath)]
        r == getFileHandle(q.dir, name, q.create)
        asked == Append(q.calls, [on |-> q.dir, name |-> name, kind |-> "file"])
    IN /\ q.pc = "leaf"
       /\ files' = IF r.ok THEN files \cup {r.handle} ELSE files
       /\ procs' = [procs EXCEPT ![p] =
            IF r.ok
              THEN [q EXCEPT !.pc = "returned", !.ret = r.handle, !.calls = asked]
              ELSE [q EXCEPT !.pc = "failed", !.err = r.err, !.calls = asked]]
       /\ UNCHANGED <<pa, content, capacity, dirs, rootHandle, current>>

\* the pending entry request is rejected by the backend for a reason of its
\* own (permission, I/O): the error propagates out of the call
BackendFailure(p) ==
    LET q == procs[p]
        name == q.absolutePath[IF q.pc = "walk" THEN q.i + 1 ELSE Len(q.absolutePath)]
        kind == IF q.pc = "walk" THEN "dir" ELSE "file"
    IN /\ q.pc \in {"walk", "leaf"}
       /\ procs' = [procs EXCEPT ![p] =
            [q EXCEPT !.pc = "failed", !.err = "BackendFailure",
                      !.calls = Append(@, [on |-> q.dir, name |-> name, kind |-> kind])]]
       /\ UNCHANGED <<pa, content, capacity, dirs, files, rootHandle, current>>

\* a plausible slip: the argument is stored as given
CdStoredPathAsGiven(cd, path) == AsArray(path)

\* cd line 88: the path stored, resolved when the walk has returned
CdStoredPath(cd, path) == resolvePath(cd, path)

\* cd lines 87-89: the awaited getDir has returned; both halves are assigned
CdResume(p) ==
    LET q == procs[p] IN
    /\ q.op = "cd"
    /\ q.pc = "returned"
    /\ current' = [handle |-> q.ret, path |-> CdStoredPath(current.path, q.path)]
    /\ procs' = [procs EXCEPT ![p] = [q EXCEPT !.pc = "done"]]
    /\ UNCHANGED <<pa, content, capacity, dirs, files, rootHandle>>

(***************************************************************************)
(* resolve and pwd (src/src/LocalFS.ts 73-81, 95-97).                      *)
(***************************************************************************)
\* a handle the backend does not find below the root
Foreign == <<<<"b">>, <<"b">>, <<"b">>>>

\* resolve lines 74-75, 80: a handle is handed to rootHandle.resolve, a path
\* is resolved against the current path and rendered at once
FsResolveCall(p, target) ==
    /\ procs[p].pc = "idle"
    /\ procs' = [procs EXCEPT ![p] =
         IF target.isHandle
           THEN [IdleProc EXCEPT !.op = "resolve", !.pc = "rootResolve",
                                 !.ret = target.handle, !.before = current]
           ELSE [IdleProc EXCEPT !.op = "resolve", !.pc = "done", !.path = target.path,
                                 !.str = toString(resolvePath(current.path, target.path)),
                                 !.before = current]]
    /\ UNCHANGED <<pa, content, capacity, dirs, files, rootHandle, current>>

\* resolve lines 75-78: rootHandle.resolve(path) settles, with null for a
\* handle that is not below the root, else with the names from the root down
FsResolveHandle(p) ==
    LET q == procs[p] IN
    /\ q.op = "resolve"
    /\ q.pc = "rootResolve"
    /\ procs' = [procs EXCEPT ![p] =
         IF q.ret \in dirs \cup files
           THEN [q EXCEPT !.pc = "done", !.str = toString(<<ROOT_NAME>> \o q.ret)]
           ELSE [q EXCEPT !.pc = "failed", !.err = "Error"]]
    /\ UNCHANGED <<pa, content, capacity, dirs, files, rootHandle, current>>

\* pwd lines 95-97
PwdCall(p) ==
    /\ procs[p].pc = "idle"
    /\ procs' = [procs EXCEPT ![p] =
         [IdleProc EXCEPT !.op = "pwd", !.pc = "done",
                          !.str = toString(current.path), !.before = current]]
    /\ UNCHANGED <<pa, content, capacity, dirs, files, rootHandle, current>>

(***************************************************************************)
(* write (src/src/LocalFS.ts 147-160).                                     *)
(***************************************************************************)
\* `target instanceof Handle ? target : await this.getDir/getFile(target, create)`:
\* a handle is taken as it is, a path is walked
Obtain(op, target, create) ==
    IF target.isHandle
      THEN [IdleProc EXCEPT !.op = op, !.pc = "returned", !.ret = target.handle,
                            !.create = create, !.before = current]
      ELSE WalkStart(op, target.path, create)

\* write lines 148-150: the file handle is obtained, append forces
\* keepExistingData
WriteCall(p, target, data, append, keep) ==
    /\ procs[p].pc = "idle"
    /\ procs' = [procs EXCEPT ![p] =
         [Obtain("write", target, TRUE) EXCEPT
            !.data = data, !.append = append, !.keep = (keep \/ append)]]
    /\ UNCHANGED <<pa, content, capacity, dirs, files, rootHandle, current>>

\* fileHandle.createWritable(options): a stream on a copy of the file, or on
\* an empty one
Writable(file, keep) ==
    [state |-> "open", file |-> file, pos |-> 0,
     buf |-> IF keep THEN ContentOf(file) ELSE << >>, closes |-> 0]

\* write line 152: createWritable settles with a stream
WriteOpen(p) ==
    LET q == procs[p] IN
    /\ q.op = "write"
    /\ q.pc = "returned"
    /\ procs' = [procs EXCEPT ![p] =
         [q EXCEPT !.phase = 1, !.w = Writable(q.ret, q.keep),
                   !.pc = IF q.append THEN "size" ELSE "write"]]
    /\ UNCHANGED <<pa, content, capacity, dirs, files, rootHandle, current>>

\* write line 154: (await fileHandle.getFile()).size
WriteSize(p) ==
    LET q == procs[p] IN
    /\ q.op = "write"
    /\ q.pc = "size"
    /\ procs' = [procs EXCEPT ![p] =
         [q EXCEPT !.size = Len(ContentOf(q.w.file)), !.pc = "seek"]]
    /\ UNCHANGED <<pa, content, capacity, dirs, files, rootHandle, current>>

\* write line 154: writable.seek(size) settles
WriteSeek(p) ==
    LET q == procs[p] IN
    /\ q.op = "write"
    /\ q.pc = "seek"
    /\ procs' = [procs EXCEPT ![p] = [q EXCEPT !.w.pos = q.size, !.pc = "write"]]
    /\ UNCHANGED <<pa, content, capacity, dirs, files, rootHandle, current>>

\* buf with data written at pos
WrittenAt(buf, pos, data) ==
    SubSeq(buf, 1, pos) \o data \o SubSeq(buf, pos + Len(data) + 1, Len(buf))

\* a plausible slip: close is awaited after the write inside the try block,
\* so an error skips it
FinallySkipped(q, err, state) ==
    [q EXCEPT !.err = err, !.w.state = state, !.pc = "failed"]

\* write lines 153-159: an await of the try block has rejected with err and
\* left the stream in state; the finally block runs
Finally(q, err, state) ==
    [q EXCEPT !.caught = err, !.w.state = state, !.pc = "close"]

\* write line 155: writable.write(content) settles; the backend refuses
\* more than MaxSize bytes, which leaves the stream errored
WriteWrite(p) ==
    LET q == procs[p]
        buf == WrittenAt(q.w.buf, q.w.pos, q.data)
    IN /\ q.op = "write"
       /\ q.pc = "write"
       /\ procs' = [procs EXCEPT ![p] =
            IF Len(buf) > MaxSize THEN Finally(q, "QuotaExceededError", "errored")
            ELSE [q EXCEPT !.w.buf = buf, !.w.pos = @ + Len(q.data), !.pc = "close"]]
       /\ UNCHANGED <<pa, content, capacity, dirs, files, rootHandle, current>>

\* the file holds buf
Stored(file, buf) ==
    [f \in DOMAIN content \cup {file} |-> IF f = file THEN buf ELSE content[f]]

\* write line 158: writable.close() settles.  Closing an open stream stores
\* its bytes; closing an errored stream rejects, and that error replaces the
\* one the finally block would rethrow
WriteClose(p) ==
    LET q == procs[p] IN
    /\ q.op = "write"
    /\ q.pc = "close"
    /\ content' = IF q.w.state = "open" THEN Stored(q.w.file, q.w.buf) ELSE content
    /\ procs' = [procs EXCEPT ![p] =
         IF q.w.state # "open"
           THEN [q EXCEPT !.w.closes = @ + 1, !.pc = "failed", !.err = "TypeError"]
         ELSE IF q.caught # ""
           THEN [q EXCEPT !.w.closes = @ + 1, !.w.state = "closed",
                          !.pc = "failed", !.err = q.caught]
         ELSE [q EXCEPT !.w.closes = @ + 1, !.w.state = "closed", !.pc = "done"]]
    /\ UNCHANGED <<pa, capacity, dirs, files, rootHandle, current>>

\* the pending request of write is rejected by the backend for a reason of
\* its own: createWritable (no stream), getFile (the stream stays open), seek
\* or write (the stream is errored), close (the stream is errored)
WriteFailure(p) ==
    LET q == procs[p] IN
    /\ q.op = "write"
    /\ q.pc \in {"returned", "size", "seek", "write", "close"}
    /\ procs' = [procs EXCEPT ![p] =
         CASE q.pc = "returned" -> [q EXCEPT !.pc = "failed", !.err = "BackendFailure"]
           [] q.pc = "size" -> Finally(q, "BackendFailure", "open")
           [] q.pc \in {"seek", "write"} -> Finally(q, "BackendFailure", "errored")
           [] q.pc = "close" ->
                [q EXCEPT !.w.closes = @ + 1, !.w.state = "errored",
                          !.pc = "failed", !.err = "BackendFailure"]]
    /\ UNCHANGED <<pa, content, capacity, dirs, files, rootHandle, current>>

(***************************************************************************)
(* The promises of copyFile, copyDir and ls (src/src/LocalFS.ts 110-120,   *)
(* 171-226).  A task is one promise chain: the copy of one file            *)
(* (getFileHandle, then copyFileHelper), the copy of one sub-directory     *)
(* (isSameEntry, getDirectoryHandle, then copyDirHelper), one call of      *)
(* copyDirHelper, or one call of the filter.  parent is the task whose     *)
(* Promise.all awaits it, 0 for the call itself.                           *)
(***************************************************************************)
\* the children of directory dir
Entries(dir) == {n \in dirs \cup files : Len(n) = Len(dir) + 1 /\ Pop(n) = dir}

Task(kind, pc, parent, from, to) ==
    [kind |-> kind, pc |-> pc, parent |-> parent, from |-> from, to |-> to,
     seen |-> {}, snap |-> {}, blob |-> << >>, w |-> NoStream, pass |-> FALSE,
     err |-> "", at |-> ""]

\* the task has rejected with err, at the await it was suspended at
Reject(task, err) == [task EXCEPT !.pc = "failed", !.err = err, !.at = task.pc]

\* copyFileHelper(file, to), lines 199-202, up to its first await
FileHelperTask(parent, file, to) == Task("file", "getFile", parent, file, to)

\* copyDirHelper(dir, to, originalTo), lines 204-206, up to its first await;
\* snap holds the entries the directory has when the iteration starts
DirHelperTask(parent, dir, to) ==
    [Task("helper", "next", parent, dir, to) EXCEPT !.snap = Entries(dir)]

TaskSettled(t) == t.pc \in {"done", "failed"}

\* the tasks that the Promise.all of task t (of the call, for 0) awaits
Awaited(tasks, t) == {c \in 1..Len(tasks) : tasks[c].parent = t}

\* a plausible slip: the promises are not awaited
FulfilledUnawaited(tasks, cs) == TRUE

\* Promise.all (lines 115, 225) and await (lines 177, 195) fulfil when
\* every promise has
Fulfilled(tasks, cs) == \A c \in cs : tasks[c].pc = "done"

\* Promise.all rejects as soon as one of the promises has
RejectedBy(tasks, cs) == {c \in cs : tasks[c].pc = "failed"}

\* a plausible slip: the source is obtained as the destination is, created
\* where it is missing
CopyCallCreates(p, op, source, destination) ==
    /\ procs[p].pc = "idle"
    /\ procs' = [procs EXCEPT ![p] =
         [Obtain(op, source, TRUE) EXCEPT !.dest = destination]]
    /\ UNCHANGED <<pa, content, capacity, dirs, files, rootHandle, current>>

\* copyFile lines 171-172, copyDir lines 189-190: the source is obtained
CopyCall(p, op, source, destination) ==
    /\ procs[p].pc = "idle"
    /\ procs' = [procs EXCEPT ![p] =
         [Obtain(op, source, FALSE) EXCEPT !.dest = destination]]
    /\ UNCHANGED <<pa, content, capacity, dirs, files, rootHandle, current>>

\* copyFile line 173, copyDir line 191: with the source in hand, the
\* destination is obtained, created where it is missing
CopyDestination(p) ==
    LET q == procs[p] IN
    /\ q.op \in {"copyFile", "copyDir"}
    /\ q.pc = "returned"
    /\ q.phase = 0
    /\ procs' = [procs EXCEPT ![p] =
         [Obtain(q.op, q.dest, TRUE) EXCEPT
            !.phase = 1, !.src = q.ret, !.dest = q.dest, !.before = q.before,
            !.calls = q.calls]]
    /\ UNCHANGED <<pa, content, capacity, dirs, files, rootHandle, current>>

\* where a copy of directory to would be, were source src copied into to
\* whole (to inside src)
SelfCopy(src, to) == to \o SubSeq(to, Len(src) + 1, Len(to))

\* a plausible slip: the identity check is left out
SameEntryNever(a, b) == FALSE

\* a.isSameEntry(b): the two handles stand for the same entry
SameEntry(a, b) == a = b

\* copyFile lines 175-177, copyDir lines 193-195: isSameEntry settles, and
\* the call returns or starts its helper
CopySame(p) ==
    LET q == procs[p] IN
    /\ q.op \in {"copyFile", "copyDir"}
    /\ q.pc = "returned"
    /\ q.phase = 1
    /\ procs' = [procs EXCEPT ![p] =
         IF SameEntry(q.src, q.ret)
           THEN [q EXCEPT !.phase = 2, !.to = q.ret, !.pc = "done"]
           ELSE [q EXCEPT !.phase = 2, !.to = q.ret, !.pc = "await",
                   !.hadSelfCopy = SelfCopy(q.src, q.ret) \in dirs \cup files,
                   !.tasks = IF q.op = "copyFile"
                               THEN <<FileHelperTask(0, q.src, q.ret)>>
                               ELSE <<DirHelperTask(0, q.src, q.ret)>>]]
    /\ UNCHANGED <<pa, content, capacity, dirs, files, rootHandle, current>>

\* ls line 111: the directory is obtained
LsCall(p, target, filter) ==
    /\ procs[p].pc = "idle"
    /\ procs' = [procs EXCEPT ![p] =
         [Obtain("ls", target, FALSE) EXCEPT !.filter = filter]]
    /\ UNCHANGED <<pa, content, capacity, dirs, files, rootHandle, current>>

\* the orders in which the entries of a directory can be enumerated
Orders(S) ==
    {f \in [1..Cardinality(S) -> S] : \A i, j \in 1..Cardinality(S) : f[i] = f[j] => i = j}

\* ls lines 112-119: Array.fromAsync(dir.entries()) settles; without a
\* filter the entries are returned, with one it is called on every entry
LsEntries(p) ==
    LET q == procs[p] IN
    /\ q.op = "ls"
    /\ q.pc = "returned"
    /\ \E entries \in Orders(Entries(q.ret)) :
         procs' = [procs EXCEPT ![p] =
           IF q.filter
             THEN [q EXCEPT !.phase = 1, !.entries = entries, !.pc = "await",
                     !.tasks = [k \in 1..Len(entries) |->
                                  Task("filter", "run", 0, entries[k], entries[k])]]
             ELSE [q EXCEPT !.phase = 1, !.entries = entries, !.pc = "done"]]
    /\ UNCHANGED <<pa, content, capacity, dirs, files, rootHandle, current>>

\* the entries the filter has passed, in their order
RECURSIVE Passed(_, _, _)
Passed(entries, tasks, k) ==
    IF k > Len(entries) THEN << >>
    ELSE (IF tasks[k].pass THEN <<entries[k]>> ELSE << >>) \o Passed(entries, tasks, k + 1)

\* copyFile line 177, copyDir line 195, ls lines 115-116: the await of the
\* call settles, with the first rejection or when all is fulfilled
Await(p) ==
    LET q == procs[p]
        cs == Awaited(q.tasks, 0)
    IN /\ q.pc = "await"
       /\ \/ \E c \in RejectedBy(q.tasks, cs) :
               procs' = [procs EXCEPT ![p] =
                 [q EXCEPT !.pc = "failed", !.err = q.tasks[c].err]]
          \/ /\ RejectedBy(q.tasks, cs) = {}
             /\ Fulfilled(q.tasks, cs)
             /\ procs' = [procs EXCEPT ![p] =
                  IF q.op = "ls"
                    THEN [q EXCEPT !.pc = "done",
                                   !.entries = Passed(q.entries, q.tasks, 1)]
                    ELSE [q EXCEPT !.pc = "done"]]
       /\ UNCHANGED <<pa, content, capacity, dirs, files, rootHandle, current>>

\* the pending request of copyFile, copyDir or ls (createWritable aside: the
\* second getFile/getDir, isSameEntry, entries) is rejected by the backend
CallFailure(p) ==
    LET q == procs[p] IN
    /\ q.op \in {"copyFile", "copyDir", "ls"}
    /\ q.pc = "returned"
    /\ q.op = "ls" \/ q.phase = 1
    /\ procs' = [procs EXCEPT ![p] = [q EXCEPT !.pc = "failed", !.err = "BackendFailure"]]
    /\ UNCHANGED <<pa, content, capacity, dirs, files, rootHandle, current>>

\* task t of call p is a task of the given kind at the given await
TaskAt(p, t, kind, pc) ==
    /\ t \in 1..Len(procs[p].tasks)
    /\ procs[p].tasks[t].kind = kind
    /\ procs[p].tasks[t].pc = pc

\* call p with task t replaced, and with one task more
WithTask(p, t, task) == [procs EXCEPT ![p].tasks[t] = task]
WithTasks(p, t, task, new) ==
    [procs EXCEPT ![p].tasks = Append([@ EXCEPT ![t] = task], new)]

\* the name of an entry
NameOf(node) == node[Len(node)]

\* copyDirHelper lines 206-223: entries.next() settles with an entry that
\* the iteration has not given yet, and the promise for it is pushed
HelperNext(p, t) ==
    LET h == procs[p].tasks[t] IN
    /\ TaskAt(p, t, "helper", "next")
    /\ \E c \in Entries(h.from) \ h.seen :
         procs' = WithTasks(p, t, [h EXCEPT !.seen = @ \cup {c}],
                    IF c \in dirs THEN Task("dir", "same", t, c, h.to)
                    ELSE Task("file", "getFileHandle", t, c, h.to))
    /\ UNCHANGED <<pa, content, capacity, dirs, files, rootHandle, current>>

\* copyDirHelper lines 206 and 225: entries.next() settles with done, every
\* entry the directory had at the start having been given, and the promises
\* are awaited
HelperLast(p, t) ==
    LET h == procs[p].tasks[t] IN
    /\ TaskAt(p, t, "helper", "next")
    /\ h.snap \subseteq h.seen
    /\ procs' = WithTask(p, t, [h EXCEPT !.pc = "join"])
    /\ UNCHANGED <<pa, content, capacity, dirs, files, rootHandle, current>>

\* a plausible slip: the child is compared with the destination of this
\* level, not with the original one
SkipChildOfTo(handle, to, originalTo) == SameEntry(handle, to)

\* copyDirHelper lines 210-212: handle.isSameEntry(originalTo)
SkipChild(handle, to, originalTo) == SameEntry(handle, originalTo)

\* copyDirHelper lines 210-213: isSameEntry settles; the child is skipped,
\* or its directory is requested at the destination
DirSame(p, t) ==
    LET d == procs[p].tasks[t] IN
    /\ TaskAt(p, t, "dir", "same")
    /\ procs' = WithTask(p, t,
         IF SkipChild(d.from, d.to, procs[p].to) THEN [d EXCEPT !.pc = "done"]
         ELSE [d EXCEPT !.pc = "getDirectoryHandle"])
    /\ UNCHANGED <<pa, content, capacity, dirs, files, rootHandle, current>>

\* copyDirHelper lines 213-214: to.getDirectoryHandle(name, {create: true})
\* settles, and copyDirHelper is called on the child
DirCreate(p, t) ==
    LET d == procs[p].tasks[t]
        r == getDirectoryHandle(d.to, NameOf(d.from), TRUE)
    IN /\ TaskAt(p, t, "dir", "getDirectoryHandle")
       /\ dirs' = IF r.ok THEN dirs \cup {r.handle} ELSE dirs
       /\ procs' = WithTask(p, t,
            IF r.ok THEN DirHelperTask(d.parent, d.from, r.handle)
            ELSE Reject(d, r.err))
       /\ UNCHANGED <<pa, content, capacity, files, rootHandle, current>>

\* copyDirHelper lines 220-221: to.getFileHandle(name, {create: true})
\* settles, and copyFileHelper is called
FileCreate(p, t) ==
    LET f == procs[p].tasks[t]
        r == getFileHandle(f.to, NameOf(f.from), TRUE)
    IN /\ TaskAt(p, t, "file", "getFileHandle")
       /\ files' = IF r.ok THEN files \cup {r.handle} ELSE files
       /\ procs' = WithTask(p, t,
            IF r.ok THEN FileHelperTask(f.parent, f.from, r.handle)
            ELSE Reject(f, r.err))
       /\ UNCHANGED <<pa, content, capacity, dirs, rootHandle, current>>

\* copyFileHelper line 200: file.getFile() settles with the bytes of the file
FileRead(p, t) ==
    LET f == procs[p].tasks[t] IN
    /\ TaskAt(p, t, "file", "getFile")
    /\ procs' = WithTask(p, t, [f EXCEPT !.blob = ContentOf(f.from), !.pc = "createWritable"])
    /\ UNCHANGED <<pa, content, capacity, dirs, files, rootHandle, current>>

\* copyFileHelper line 201: to.createWritable() settles with a stream
FileOpen(p, t) ==
    LET f == procs[p].tasks[t] IN
    /\ TaskAt(p, t, "file", "createWritable")
    /\ procs' = WithTask(p, t, [f EXCEPT !.w = Writable(f.to, FALSE), !.pc = "pipe"])
    /\ UNCHANGED <<pa, content, capacity, dirs, files, rootHandle, current>>

\* copyFileHelper line 201: pipeTo settles: the bytes are written and the
\* stream is closed, which stores them
FilePipe(p, t) ==
    LET f == procs[p].tasks[t] IN
    /\ TaskAt(p, t, "file", "pipe")
    /\ content' = Stored(f.to, f.blob)
    /\ procs' = WithTask(p, t,
         [f EXCEPT !.w.buf = f.blob, !.w.state = "closed", !.w.closes = 1, !.pc = "done"])
    /\ UNCHANGED <<pa, capacity, dirs, files, rootHandle, current>>

\* ls line 115: the filter settles for one entry
FilterRun(p, t) ==
    LET f == procs[p].tasks[t] IN
    /\ TaskAt(p, t, "filter", "run")
    /\ \E pass \in BOOLEAN :
         procs' = WithTask(p, t, [f EXCEPT !.pass = pass, !.pc = "done"])
    /\ UNCHANGED <<pa, content, capacity, dirs, files, rootHandle, current>>

\* copyDirHelper line 225: Promise.all settles, with the first rejection or
\* when all is fulfilled
Join(p, t) ==
    LET h == procs[p].tasks[t]
        cs == Awaited(procs[p].tasks, t)
    IN /\ TaskAt(p, t, "helper", "join")
       /\ \/ \E c \in RejectedBy(procs[p].tasks, cs) :
               procs' = WithTask(p, t, Reject(h, procs[p].tasks[c].err))
          \/ /\ RejectedBy(procs[p].tasks, cs) = {}
             /\ Fulfilled(procs[p].tasks, cs)
             /\ procs' = WithTask(p, t, [h EXCEPT !.pc = "done"])
       /\ UNCHANGED <<pa, content, capacity, dirs, files, rootHandle, current>>

\* the pending request of a task is rejected by the backend, or the filter
\* throws; a pipe that fails leaves its stream errored
TaskFailure(p, t) ==
    LET f == procs[p].tasks[t] IN
    /\ t \in 1..Len(procs[p].tasks)
    /\ f.pc \notin {"join", "done", "failed"}
    /\ procs' = WithTask(p, t,
         [Reject(f, "BackendFailure") EXCEPT
            !.w.state = IF f.pc = "pipe" THEN "errored" ELSE @])
    /\ UNCHANGED <<pa, content, capacity, dirs, files, rootHandle, current>>

\* the call has settled (fulfilled or rejected), and so have its promises
Settled(q) ==
    /\ \/ q.pc = "failed"
       \/ q.pc = "done"
       \/ q.pc = "returned" /\ q.op \in {"getDir", "getFile"}
    /\ \A t \in 1..Len(q.tasks) : TaskSettled(q.tasks[t])

\* the caller takes the outcome of a settled call
Settle(p) ==
    /\ Settled(procs[p])
    /\ procs' = [procs EXCEPT ![p] = IdleProc]
    /\ UNCHANGED <<pa, content, capacity, dirs, files, rootHandle, current>>

\* LocalFS constructor, lines 35-38, on the root of the backend tree
NavInit ==
    /\ dirs = InitDirs
    /\ files = InitFiles
    /\ content = InitContent
    /\ rootHandle = RootNode
    /\ current = [handle |-> rootHandle, path |-> <<ROOT_NAME>>]
    /\ procs = [p \in Procs |-> IdleProc]

Init ==
    /\ pa = PaIdle
    /\ capacity = MaxCreate
    /\ NavInit

AllIdle == \A p \in Procs : procs[p].pc = "idle"

\* the caller awaits each call before it makes the next
SeqGetDir == \E path \in PathArgs : AllIdle /\ GetDirCall(1, path, FALSE)
SeqGetFile == \E path \in PathArgs : AllIdle /\ GetFileCall(1, path, FALSE)
SeqGetDirCreate == \E path \in CreateArgs : AllIdle /\ GetDirCall(1, path, TRUE)
SeqGetFileCreate == \E path \in CreateArgs : AllIdle /\ GetFileCall(1, path, TRUE)
SeqCd == \E path \in PathArgs : AllIdle /\ CdCall(1, path)

Progress ==
    \E p \in Procs :
        \/ WalkStep(p)
        \/ LeafStep(p)
        \/ BackendFailure(p)
        \/ CdResume(p)
        \/ Settle(p)

Next ==
    \/ SeqGetDir
    \/ SeqGetFile
    \/ SeqGetDirCreate
    \/ SeqGetFileCreate
    \/ SeqCd
    \/ Progress

Spec == Init /\ [][Next]_vars

\* the slot a new call takes
FreeSlot(p) == procs[p].pc = "idle" /\ \A o \in 1..(p - 1) : procs[o].pc # "idle"

\* the caller makes calls without awaiting the earlier ones
OverlapGetDir == \E p \in Procs, path \in OverlapArgs : FreeSlot(p) /\ GetDirCall(p, path, FALSE)
OverlapGetFile == \E p \in Procs, path \in OverlapArgs : FreeSlot(p) /\ GetFileCall(p, path, FALSE)
OverlapCd == \E p \in Procs, path \in OverlapArgs : FreeSlot(p) /\ CdCall(p, path)

NextOverlap ==
    \/ OverlapGetDir
    \/ OverlapGetFile
    \/ OverlapCd
    \/ Progress

SpecOverlap == Init /\ [][NextOverlap]_vars

\* one getDir or getFile at a time, in slot 1, and in the other slots the cd
\* calls that the caller makes without awaiting it
CdSlot(p) == p # 1 /\ procs[p].pc = "idle" /\ \A o \in 2..(p - 1) : procs[o].pc # "idle"

\* the path arguments of the walk:  a  ..  /a/b  .
WalkArgs == OverlapArgs \cup {[isArray |-> TRUE, val |-> <<DOT>>]}

WalkGetDir == \E path \in WalkArgs : GetDirCall(1, path, FALSE)
WalkGetFile == \E path \in WalkArgs : GetFileCall(1, path, FALSE)
WalkCd == \E p \in Procs, path \in OverlapArgs : CdSlot(p) /\ CdCall(p, path)

NextWalk ==
    \/ WalkGetDir
    \/ WalkGetFile
    \/ WalkCd
    \/ Progress

SpecWalk == Init /\ [][NextWalk]_vars

\* the arguments of write and copyFile: the file /a/a as a handle, as an
\* absolute array and as the relative string "a", and the missing file /b/a
FileTargets ==
    {HandleTarget(<<<<"a">>, <<"a">>>>),
     PathTarget(<<ROOT_NAME, <<"a">>, <<"a">>>>),
     StringTarget(<<"a">>),
     PathTarget(<<ROOT_NAME, <<"b">>, <<"a">>>>)}

\* the current directory is / or /a
WriteCdArgs == {[isArray |-> TRUE, val |-> v] : v \in {<<<<"a">>>>, <<DOTDOT>>}}

WriteWrites ==
    \E target \in FileTargets, append \in BOOLEAN, keep \in BOOLEAN :
        AllIdle /\ WriteCall(1, target, <<"y">>, append, keep)
WriteCopies ==
    \E source \in FileTargets, destination \in FileTargets :
        AllIdle /\ CopyCall(1, "copyFile", source, destination)
WriteCds == \E path \in WriteCdArgs : AllIdle /\ CdCall(1, path)

\* write, copyFile and cd, each awaited before the next call
NextWrite ==
    \/ WriteWrites
    \/ WriteCopies
    \/ WriteCds
    \/ \E p \in Procs :
         \/ WalkStep(p)
         \/ LeafStep(p)
         \/ BackendFailure(p)
         \/ CdResume(p)
         \/ WriteOpen(p)
         \/ WriteSize(p)
         \/ WriteSeek(p)
         \/ WriteWrite(p)
         \/ WriteClose(p)
         \/ WriteFailure(p)
         \/ CopyDestination(p)
         \/ CopySame(p)
         \/ Await(p)
         \/ CallFailure(p)
         \/ Settle(p)
    \/ \E p \in Procs : \E t \in 1..Len(procs[p].tasks) : FileRead(p, t)
    \/ \E p \in Procs : \E t \in 1..Len(procs[p].tasks) : FileOpen(p, t)
    \/ \E p \in Procs : \E t \in 1..Len(procs[p].tasks) : FilePipe(p, t)
    \/ \E p \in Procs : \E t \in 1..Len(procs[p].tasks) : TaskFailure(p, t)

SpecWrite == Init /\ [][NextWrite]_vars

\* the sources /, /a, /b and /a/b, and the destination /a/b, which lies inside
\* / and /a, outside /b and is /a/b itself
CopySources ==
    {PathTarget(<<ROOT_NAME>>), PathTarget(<<ROOT_NAME, <<"a">>>>),
     PathTarget(<<ROOT_NAME, <<"b">>>>), PathTarget(<<ROOT_NAME, <<"a">>, <<"b">>>>)}
CopyDestinations ==
    {PathTarget(<<ROOT_NAME, <<"a">>, <<"b">>>>), HandleTarget(<<<<"a">>, <<"b">>>>)}
LsTargets == {PathTarget(<<ROOT_NAME>>), HandleTarget(<<<<"a">>>>)}

CopyCopies ==
    \E source \in CopySources, destination \in CopyDestinations :
        AllIdle /\ CopyCall(1, "copyDir", source, destination)
CopyLists ==
    \E target \in LsTargets, filter \in BOOLEAN :
        AllIdle /\ LsCall(1, target, filter)

\* the backend has room for the entries a copy of the tree into /a/b makes
CopyInit ==
    /\ pa = PaIdle
    /\ capacity = MaxCreate + 2
    /\ NavInit

\* copyDir and ls, each awaited before the next call
NextCopy ==
    \/ CopyCopies
    \/ CopyLists
    \/ \E p \in Procs :
         \/ WalkStep(p)
         \/ BackendFailure(p)
         \/ CopyDestination(p)
         \/ CopySame(p)
         \/ LsEntries(p)
         \/ Await(p)
         \/ CallFailure(p)
         \/ Settle(p)
    \/ \E p \in Procs : \E t \in 1..Len(procs[p].tasks) : HelperNext(p, t)
    \/ \E p \in Procs : \E t \in 1..Len(procs[p].tasks) : HelperLast(p, t)
    \/ \E p \in Procs : \E t \in 1..Len(procs[p].tasks) : DirSame(p, t)
    \/ \E p \in Procs : \E t \in 1..Len(procs[p].tasks) : DirCreate(p, t)
    \/ \E p \in Procs : \E t \in 1..Len(procs[p].tasks) : FileCreate(p, t)
    \/ \E p \in Procs : \E t \in 1..Len(procs[p].tasks) : FileRead(p, t)
    \/ \E p \in Procs : \E t \in 1..Len(procs[p].tasks) : FileOpen(p, t)
    \/ \E p \in Procs : \E t \in 1..Len(procs[p].tasks) : FilePipe(p, t)
    \/ \E p \in Procs : \E t \in 1..Len(procs[p].tasks) : FilterRun(p, t)
    \/ \E p \in Procs : \E t \in 1..Len(procs[p].tasks) : Join(p, t)
    \/ \E p \in Procs : \E t \in 1..Len(procs[p].tasks) : TaskFailure(p, t)

SpecCopy == CopyInit /\ [][NextCopy]_vars

\* copyDir of /a/b into /b, which is apart from it, and into /a, which
\* holds it; neither lies inside /a/b
MirrorCopies ==
    \E destination \in {PathTarget(<<ROOT_NAME, <<"b">>>>), PathTarget(<<ROOT_NAME, <<"a">>>>)} :
        AllIdle /\ CopyCall(1, "copyDir", PathTarget(<<ROOT_NAME, <<"a">>, <<"b">>>>), destination)

\* LocalFS constructor, lines 35-38, on the root of a tree in which /a/b
\* is not empty: it holds the directory /a/b/b, which holds the file
\* /a/b/b/a with the bytes "y"; the backend has room for the entries the
\* copies make
MirrorInit ==
    /\ pa = PaIdle
    /\ capacity = MaxCreate + 4
    /\ dirs = InitDirs \cup {<<<<"a">>, <<"b">>, <<"b">>>>}
    /\ files = InitFiles \cup {<<<<"a">>, <<"b">>, <<"b">>, <<"a">>>>}
    /\ content = [f \in files |-> IF f \in InitFiles THEN InitContent[f] ELSE <<"y">>]
    /\ rootHandle = RootNode
    /\ current = [handle |-> rootHandle, path |-> <<ROOT_NAME>>]
    /\ procs = [p \in Procs |-> IdleProc]

\* copyDir, each call awaited before the next
NextMirror ==
    \/ MirrorCopies
    \/ \E p \in Procs :
         \/ WalkStep(p)
         \/ BackendFailure(p)
         \/ CopyDestination(p)
         \/ CopySame(p)
         \/ Await(p)
         \/ CallFailure(p)
         \/ Settle(p)
    \/ \E p \in Procs : \E t \in 1..Len(procs[p].tasks) : HelperNext(p, t)
    \/ \E p \in Procs : \E t \in 1..Len(procs[p].tasks) : HelperLast(p, t)
    \/ \E p \in Procs : \E t \in 1..Len(procs[p].tasks) : DirSame(p, t)
    \/ \E p \in Procs : \E t \in 1..Len(procs[p].tasks) : DirCreate(p, t)
    \/ \E p \in Procs : \E t \in 1..Len(procs[p].tasks) : FileCreate(p, t)
    \/ \E p \in Procs : \E t \in 1..Len(procs[p].tasks) : FileRead(p, t)
    \/ \E p \in Procs : \E t \in 1..Len(procs[p].tasks) : FileOpen(p, t)
    \/ \E p \in Procs : \E t \in 1..Len(procs[p].tasks) : FilePipe(p, t)
    \/ \E p \in Procs : \E t \in 1..Len(procs[p].tasks) : Join(p, t)
    \/ \E p \in Procs : \E t \in 1..Len(procs[p].tasks) : TaskFailure(p, t)

SpecMirror == MirrorInit /\ [][NextMirror]_vars

\* one argument or two for every operation of the navigator
AllPaths == {[isArray |-> TRUE, val |-> <<<<"a">>>>], [isArray |-> TRUE, val |-> <<DOTDOT>>]}
AllFiles == {HandleTarget(<<<<"a">>, <<"a">>>>), StringTarget(<<"a">>)}
AllHandles == {HandleTarget(<<<<"a">>, <<"a">>>>), HandleTarget(Foreign)}

\* the file /b/a and the directory /b/b are missing
AllSources ==
    {HandleTarget(<<<<"a">>, <<"a">>>>), PathTarget(<<ROOT_NAME, <<"b">>, <<"a">>>>)}

\* every operation of the navigator, each call awaited before the next
NextAll ==
    \/ \E path \in AllPaths : AllIdle /\ GetDirCall(1, path, FALSE)
    \/ \E path \in AllPaths : AllIdle /\ GetFileCall(1, path, FALSE)
    \/ \E path \in AllPaths : AllIdle /\ CdCall(1, path)
    \/ \E target \in AllHandles \cup {StringTarget(<<"a">>)} :
         AllIdle /\ FsResolveCall(1, target)
    \/ AllIdle /\ PwdCall(1)
    \/ \E filter \in BOOLEAN : AllIdle /\ LsCall(1, PathTarget(<<<<"a">>>>), filter)
    \/ \E target \in AllFiles, append \in BOOLEAN :
         AllIdle /\ WriteCall(1, target, <<"y">>, append, FALSE)
    \/ \E source \in AllSources,
          destination \in AllFiles \cup {PathTarget(<<ROOT_NAME, <<"b">>, <<"a">>>>)} :
         AllIdle /\ CopyCall(1, "copyFile", source, destination)
    \/ \E source \in {PathTarget(<<<<"a">>>>), PathTarget(<<ROOT_NAME, <<"b">>>>),
                      PathTarget(<<ROOT_NAME, <<"b">>, <<"b">>>>)},
          destination \in {PathTarget(<<ROOT_NAME, <<"a">>, <<"b">>>>),
                           PathTarget(<<ROOT_NAME, <<"b">>, <<"b">>>>)} :
         AllIdle /\ CopyCall(1, "copyDir", source, destination)
    \/ \E p \in Procs :
         \/ WalkStep(p)
         \/ LeafStep(p)
         \/ BackendFailure(p)
         \/ CdResume(p)
         \/ FsResolveHandle(p)
         \/ WriteOpen(p)
         \/ WriteSize(p)
         \/ WriteSeek(p)
         \/ WriteWrite(p)
         \/ WriteClose(p)
         \/ WriteFailure(p)
         \/ CopyDestination(p)
         \/ CopySame(p)
         \/ LsEntries(p)
         \/ Await(p)
         \/ CallFailure(p)
         \/ Settle(p)
    \/ \E p \in Procs : \E t \in 1..Len(procs[p].tasks) : HelperNext(p, t)
    \/ \E p \in Procs : \E t \in 1..Len(procs[p].tasks) : HelperLast(p, t)
    \/ \E p \in Procs : \E t \in 1..Len(procs[p].tasks) : DirSame(p, t)
    \/ \E p \in Procs : \E t \in 1..Len(procs[p].tasks) : DirCreate(p, t)
    \/ \E p \in Procs : \E t \in 1..Len(procs[p].tasks) : FileCreate(p, t)
    \/ \E p \in Procs : \E t \in 1..Len(procs[p].tasks) : FileRead(p, t)
    \/ \E p \in Procs : \E t \in 1..Len(procs[p].tasks) : FileOpen(p, t)
    \/ \E p \in Procs : \E t \in 1..Len(procs[p].tasks) : FilePipe(p, t)
    \/ \E p \in Procs : \E t \in 1..Len(procs[p].tasks) : FilterRun(p, t)
    \/ \E p \in Procs : \E t \in 1..Len(procs[p].tasks) : Join(p, t)
    \/ \E p \in Procs : \E t \in 1..Len(procs[p].tasks) : TaskFailure(p, t)

SpecAll == Init /\ [][NextAll]_vars

\* a call of normalize on an array of up to MaxLen segments (or on the
\* documented example), of resolve on up to MaxArgs arrays that hold up to
\* MaxLen segments in all, of toArray on a string of up to MaxStrLen + 2
\* characters, or of toString on an array of up to MaxLen segments
PathInit ==
    /\ \/ \E p \in NormalizeInputs, a \in BOOLEAN : pa = NormalizeCall(p, a)
       \/ pa = ResolveCall(<< >>)
       \/ \E n \in 1..MaxArgs, s \in SeqsUpTo(Segs, MaxLen) :
             \E c \in Cuts(s, n) : pa = ResolveCall(CutAt(s, n, c))
       \/ \E str \in SeqsUpTo(Chars, MaxStrLen + 2) : pa = ToArrayCall(str)
       \/ \E p \in SeqsUpTo(Segs \cup {SlashName}, MaxLen) : pa = ToStringCall(p)
    /\ capacity = MaxCreate
    /\ NavInit

PathNext ==
    \/ ResolveFold
    \/ ResolveNormalize
    \/ NormalizeStep
    \/ NormalizeReturn
    \/ ResolveReturn
    \/ ToArraySplit
    \/ ToArrayReturn
    \/ ToStringReturn
    \/ ToArrayOfString

SpecPath == PathInit /\ [][PathNext]_vars


(***************************************************************************)
(* Claims about the navigator.                                             *)
(***************************************************************************)
IsAbsolute(path) == Len(path) > 0 /\ path[1] = ROOT_NAME

\* no ".", ".." or empty segment from index k on (1-based)
OnlyNamesFrom(path, k) ==
    \A j \in k..Len(path) : path[j] \notin {ROOT_NAME, DOT, DOTDOT}

\* the backend directory an absolute, normalized path names
NodeOf(path) == Tail(path)

\* c is an element-wise prefix of t, or equal to it
IsPrefixOf(c, t) == Len(c) <= Len(t) /\ SubSeq(t, 1, Len(c)) = c

\* the walk of target from the root handle, from index 1, nothing created
RECURSIVE FreshWalk(_, _, _)
FreshWalk(dir, target, i) ==
    IF i >= Len(target) THEN [ok |-> TRUE, handle |-> dir, err |-> ""]
    ELSE LET r == getDirectoryHandle(dir, target[i + 1], FALSE) IN
         IF r.ok THEN FreshWalk(r.handle, target, i + 1)
         ELSE [ok |-> FALSE, handle |-> dir, err |-> r.err]

\* the call runs getDir and the current directory is still the one it found
\* (cd runs getDir and changes the current directory after it)
InGetDir(q) == q.op = "getDir" \/ (q.op = "cd" /\ q.pc # "done")

\* C1: whatever the current directory, getFile requests the leaf, the last
\* segment of the resolved absolute target, from the handle of the target's
\* parent directory, the case where the target is the current directory
\* included.  Stated for the targets that have a parent (other than root).
GetFileAsksParentForLeaf ==
    \A p \in Procs :
        LET q == procs[p] IN
        (q.op = "getFile" /\ Len(q.calls) > 0
           /\ q.calls[Len(q.calls)].kind = "file" /\ Len(q.absolutePath) >= 2)
          => /\ q.calls[Len(q.calls)].name = q.absolutePath[Len(q.absolutePath)]
             /\ q.calls[Len(q.calls)].on = NodeOf(Pop(q.absolutePath))

\* C2: with calls that do not overlap and nothing created by the call,
\* getDir(path) settles as a fresh walk of resolve(current.path, path) from
\* the root handle does: with the same directory, or with the same error.
GetDirSameAsFreshWalk ==
    \A p \in Procs :
        LET q == procs[p]
            fresh == FreshWalk(rootHandle, resolvePath(current.path, q.path), 1)
        IN (InGetDir(q) /\ ~q.create)
             => /\ q.pc = "returned" => fresh.ok /\ fresh.handle = q.ret
                /\ (q.pc = "failed" /\ q.err # "BackendFailure")
                     => ~fresh.ok /\ fresh.err = q.err

\* C2 witness: after a cd, a getDir that started from the cached handle of a
\* directory other than root has walked on and returned
GetDirSameAsFreshWalkWitness ==
    \E p \in Procs :
        /\ procs[p].op = "getDir"
        /\ procs[p].pc = "returned"
        /\ procs[p].isChild
        /\ Len(current.path) = 2
        /\ Len(procs[p].calls) = 1
        /\ procs[p].ret = NodeOf(procs[p].absolutePath)

\* C3: getDir starts from the cached handle exactly when current.path is a
\* prefix of (or equal to) the target, and then requests the segments after
\* the prefix, one child directory each, len(target) - len(current.path) in
\* all when it returns; otherwise it starts from the root handle and requests
\* segments 1..len-1, none on the cached handle (nor does getFile then).
WalkStartsWhereItShould ==
    \A p \in Procs :
        LET q == procs[p]
            t == q.absolutePath
            pre == IsPrefixOf(current.path, t)
            first == IF pre THEN Len(current.path) ELSE 1
            n == Len(q.calls)
        IN /\ InGetDir(q)
             => /\ q.isChild = pre
                /\ n <= Len(t) - first
                /\ q.pc = "returned" => n = Len(t) - first
                /\ \A k \in 1..n :
                     /\ q.calls[k].kind = "dir"
                     /\ q.calls[k].name = t[first + k]
                     /\ q.calls[k].on =
                          IF k > 1 THEN Append(q.calls[k - 1].on, q.calls[k - 1].name)
                          ELSE IF pre THEN current.handle ELSE rootHandle
                /\ (n = 0 /\ q.pc = "returned")
                     => q.ret = IF pre THEN current.handle ELSE rootHandle
           /\ (q.op \in {"getDir", "getFile"} /\ ~pre)
                => \A k \in 1..n : q.calls[k].on # current.handle

\* C3 witness: after cd to /a, a walk to the sibling /b/.. that went through
\* root, and (second disjunct) one that went on from the cached handle
WalkStartsWhereItShouldWitness ==
    \E p \in Procs :
        /\ procs[p].op = "getDir"
        /\ procs[p].pc = "returned"
        /\ current.path = <<ROOT_NAME, <<"a">>>>
        /\ ~procs[p].isChild
        /\ Len(procs[p].calls) = 1
        /\ procs[p].calls[1].on = rootHandle
        /\ procs[p].ret = <<<<"b">>>>

\* C4: in every reachable state, also when cd calls overlap, current.handle
\* is the handle of the directory that current.path names.
CurrentHandleIsOfCurrentPath == current.handle = NodeOf(current.path)

\* C5: a cd whose walk fails leaves the current directory as it found it
\* (handle and path, hence pwd() and where every later walk starts).
FailedCdChangesNothing ==
    \A p \in Procs :
        (procs[p].op = "cd" /\ procs[p].pc = "failed")
          => /\ current = procs[p].before
             /\ toString(current.path) = toString(procs[p].before.path)

\* C5 witness: away from root, a cd has failed after a first step succeeded
FailedCdChangesNothingWitness ==
    \E p \in Procs :
        /\ procs[p].op = "cd"
        /\ procs[p].pc = "failed"
        /\ procs[p].err = "NotFoundError"
        /\ Len(procs[p].calls) = 2
        /\ Len(current.path) > 1

\* C6: current.path is absolute and normalized: it starts with the root
\* sentinel and holds no empty, "." or ".." element after index 0; so pwd()
\* begins with the separator and every path the navigator resolves against
\* it is absolute.
CurrentPathAbsoluteNormalized ==
    /\ IsAbsolute(current.path)
    /\ OnlyNamesFrom(current.path, 2)
    /\ toString(current.path)[1] = PATH_SEPERATOR
    /\ \A p \in Procs : procs[p].pc # "idle" => IsAbsolute(procs[p].absolutePath)

\* C6 witness: a cd with a string path holding ".." has moved from /a/b up
\* to /a
CurrentPathAbsoluteNormalizedWitness ==
    \E p \in Procs :
        /\ procs[p].op = "cd"
        /\ procs[p].pc = "done"
        /\ ~procs[p].path.isArray
        /\ \E k \in 1..Len(AsArray(procs[p].path)) : AsArray(procs[p].path)[k] = DOTDOT
        /\ Len(procs[p].before.path) = 3
        /\ Len(current.path) = 2

(***************************************************************************)
(* Claims about the path algebra, checked under SpecPath.                  *)
(***************************************************************************)
\* a normalize call of its own (not the one resolve makes) has returned
NormalizeDone == pa.fn = "normalize" /\ pa.pc = "done"

\* C7: normalize is idempotent on absolute sequences for either flag: for an
\* input that starts with the root sentinel and any flag f, normalizing the
\* result again, with any flag g, gives the result back.
NormalizeIdempotent ==
    (NormalizeDone /\ IsAbsolute(pa.args[1]))
      => \A g \in BOOLEAN : normalize(pa.result, g) = pa.result

\* C7 witness: an absolute input that normalization really changed
NormalizeIdempotentWitness ==
    /\ NormalizeDone
    /\ IsAbsolute(pa.args[1])
    /\ \E k \in 1..Len(pa.args[1]) : pa.args[1][k] = DOTDOT
    /\ Len(pa.result) > 1
    /\ pa.result # pa.args[1]

\* C8: while normalize processes an input that starts with the root sentinel
\* (called directly with either flag, or by resolve), the accumulated stack
\* starts with the sentinel and has length at least 1 after every step, and
\* the result holds no ".", ".." or empty segment after index 0.
NormalizeKeepsRoot ==
    (pa.pc \in {"normalize", "return", "done"} /\ IsAbsolute(pa.path))
      => /\ pa.i >= 1 => IsAbsolute(pa.st.res)
         /\ NormDone(pa.st, pa.path, pa.i)
              => IsAbsolute(pa.st.res) /\ OnlyNamesFrom(pa.st.res, 2)

\* C8 witness: a ".." has just been processed with only the sentinel accumulated
NormalizeKeepsRootWitness ==
    /\ pa.pc = "normalize"
    /\ IsAbsolute(pa.path)
    /\ pa.i = 2
    /\ Len(pa.path) >= 2
    /\ pa.path[2] = DOTDOT
    /\ pa.st.res = <<ROOT_NAME>>

\* C9: resolve of an absolute base and a relative path is root-anchored and
\* is neither empty nor ["."]; a ".." met while only the root sentinel is
\* accumulated is dropped (the result is that of the path without it); and
\* root resolved with any number of ".." renders as "/".
ResolveClampsAtRoot ==
    (pa.fn = "resolve" /\ pa.pc = "done" /\ Len(pa.args) = 2
       /\ IsAbsolute(pa.args[1]) /\ ~IsAbsolute(pa.args[2]))
      => /\ IsAbsolute(pa.result)
         /\ pa.result # <<DOT>>
         /\ (normalize(pa.args[1], TRUE) = <<ROOT_NAME>>
               /\ Len(pa.args[2]) > 0 /\ pa.args[2][1] = DOTDOT)
              => pa.result = resolve(<<pa.args[1], Tail(pa.args[2])>>)
         /\ (pa.args[1] = <<ROOT_NAME>>
               /\ \A k \in 1..Len(pa.args[2]) : pa.args[2][k] = DOTDOT)
              => toString(pa.result) = <<PATH_SEPERATOR>>

\* C9 witness: root resolved with two or more ".."
ResolveClampsAtRootWitness ==
    /\ pa.fn = "resolve"
    /\ pa.pc = "done"
    /\ Len(pa.args) = 2
    /\ pa.args[1] = <<ROOT_NAME>>
    /\ Len(pa.args[2]) >= 2
    /\ \A k \in 1..Len(pa.args[2]) : pa.args[2][k] = DOTDOT
    /\ pa.result = <<ROOT_NAME>>

\* C10: for a relative input and allowUpstream = false, normalize returns the
\* empty sequence as soon as a ".." is met while nothing is accumulated,
\* whatever follows (the documented example included); otherwise each ".."
\* removes the segment accumulated last, and only literal names are kept.
NormalizeEscapeFails ==
    (pa.fn = "normalize" /\ ~pa.allowUpstream /\ ~IsAbsolute(pa.args[1]))
      => LET path == pa.args[1]
             before == normalize(SubSeq(path, 1, pa.i - 1), FALSE)
             afterDotDot == pa.i \in 1..Len(path) /\ path[pa.i] = DOTDOT
         IN /\ pa.st.returned
                 => afterDotDot /\ before = << >> /\ pa.st.res = << >>
            /\ (pa.st.returned /\ pa.pc = "done") => pa.result = << >>
            /\ (~pa.st.returned /\ afterDotDot)
                 => before # << >> /\ pa.st.res = Pop(before)
            /\ ~pa.st.returned => OnlyNamesFrom(pa.st.res, 1)
            /\ (path = DocExample /\ pa.pc = "done") => pa.result = << >>

\* C10 witness: the documented example has returned the empty sequence
NormalizeEscapeFailsWitness ==
    /\ NormalizeDone
    /\ ~pa.allowUpstream
    /\ pa.args[1] = DocExample
    /\ pa.st.returned
    /\ pa.i = 4
    /\ pa.result = << >>

\* k ".." segments followed only by literal names
UpstreamForm(res) ==
    \E k \in 0..Len(res) :
        /\ \A j \in 1..k : res[j] = DOTDOT
        /\ OnlyNamesFrom(res, k + 1)

\* the literal names at the end of res
NamesIn(res) == Cardinality({j \in 1..Len(res) : res[j] # DOTDOT})

\* C11: for a relative input and allowUpstream = true, normalize never takes
\* the failure exit; after every step the accumulated result is k ".."
\* followed only by literal names; a ".." removes the literal name
\* accumulated last if there is one and is appended otherwise; and the
\* documented example ./folder/../../../../file gives ../../../file.
NormalizeUpstreamForm ==
    (pa.fn = "normalize" /\ pa.allowUpstream /\ ~IsAbsolute(pa.args[1]))
      => LET path == pa.args[1]
             before == normalize(SubSeq(path, 1, pa.i - 1), TRUE)
             afterDotDot == pa.i \in 1..Len(path) /\ path[pa.i] = DOTDOT
         IN /\ ~pa.st.returned
            /\ UpstreamForm(pa.st.res)
            /\ pa.st.segCount = NamesIn(pa.st.res)
            /\ afterDotDot
                 => pa.st.res = IF NamesIn(before) > 0 THEN Pop(before)
                                ELSE Append(before, DOTDOT)
            /\ pa.pc = "done" => pa.result = pa.st.res
            /\ (path = DocExample /\ pa.pc = "done")
                 => pa.result = <<DOTDOT, DOTDOT, DOTDOT, File>>

\* C11 witness: the documented example has returned ../../../file
NormalizeUpstreamFormWitness ==
    /\ NormalizeDone
    /\ pa.allowUpstream
    /\ pa.args[1] = DocExample
    /\ pa.result = <<DOTDOT, DOTDOT, DOTDOT, File>>

\* the index of the last argument that starts with the root sentinel, 1 if
\* there is none
LastAbsolute(args) ==
    IF \E j \in 1..Len(args) : IsAbsolute(args[j])
      THEN CHOOSE j \in 1..Len(args) :
             IsAbsolute(args[j]) /\ \A h \in (j + 1)..Len(args) : ~IsAbsolute(args[h])
      ELSE 1

\* args[j] ++ ... ++ args[n]
RECURSIVE ConcatFrom(_, _)
ConcatFrom(args, j) ==
    IF j > Len(args) THEN << >> ELSE args[j] \o ConcatFrom(args, j + 1)

ResolveDone == pa.fn = "resolve" /\ pa.pc = "done"

\* the absolute, normalized paths a current directory of the model can have
CurrentPaths == {<<ROOT_NAME>> \o v : v \in SeqsUpTo(Names, 2)}

\* C12 as stated: for every argument list a1..an (n >= 1), resolve(a1..an)
\* equals normalize(aj ++ ... ++ an, true), j the index of the last argument
\* that starts with the root sentinel (1 if there is none).
ResolveIsNormalizeOfTail ==
    (ResolveDone /\ Len(pa.args) >= 1)
      => pa.result = normalize(ConcatFrom(pa.args, LastAbsolute(pa.args)), TRUE)

\* C12 as amended: resolve(a1..an) equals normalize(aj ++ ... ++ an, true)
\* when that is not empty, and ["."] when it is empty; the arguments before j
\* have no influence on the result; so the path cd stores for an absolute
\* argument is the same whatever the current directory.
LaterAbsoluteWins ==
    ResolveDone
      => LET j == LastAbsolute(pa.args)
             tail == normalize(ConcatFrom(pa.args, j), TRUE)
             last == pa.args[Len(pa.args)]
         IN /\ pa.result = IF tail = << >> THEN <<DOT>> ELSE tail
            /\ pa.result = resolve(SubSeq(pa.args, j, Len(pa.args)))
            /\ (Len(pa.args) > 0 /\ IsAbsolute(last))
                 => \A cd \in CurrentPaths :
                      CdStoredPath(cd, [isArray |-> TRUE, val |-> last])
                        = normalize(last, TRUE)

\* C12 witness: two absolute arguments, the first of which names something
\* the result does not hold
LaterAbsoluteWinsWitness ==
    /\ ResolveDone
    /\ Len(pa.args) = 2
    /\ pa.args[1] = <<ROOT_NAME, <<"a">>>>
    /\ pa.args[2] = <<ROOT_NAME, <<"b">>>>
    /\ pa.result = <<ROOT_NAME, <<"b">>>>

\* C13 as stated: for every list of argument sequences, resolve returns a
\* non-empty sequence that is absolute and that normalize, with upstream
\* permitted, returns unchanged.
ResolveAbsoluteNormalized ==
    ResolveDone
      => /\ pa.result # << >>
         /\ IsAbsolute(pa.result)
         /\ normalize(pa.result, TRUE) = pa.result

\* C13 as amended: resolve returns a non-empty sequence; it is absolute
\* exactly when one of the arguments starts with the root sentinel; and
\* normalize, with upstream permitted, returns it unchanged unless it is the
\* fallback ["."] of an empty normalization.
ResolveNonEmptyNormalized ==
    ResolveDone
      => /\ pa.result # << >>
         /\ IsAbsolute(pa.result)
              <=> \E j \in 1..Len(pa.args) : IsAbsolute(pa.args[j])
         /\ pa.result # <<DOT>> => normalize(pa.result, TRUE) = pa.result
         /\ pa.result = <<DOT>> => pa.f.resolvedPath = << >>

\* C13 witness: an absolute argument followed by a relative one that goes up
\* and down again
ResolveNonEmptyNormalizedWitness ==
    /\ ResolveDone
    /\ pa.args = <<<<ROOT_NAME, <<"a">>>>, <<DOTDOT, <<"b">>>>>>
    /\ pa.result = <<ROOT_NAME, <<"b">>>>

\* C14 as stated: toArray("") is the one-element array holding the empty
\* string.
ToArrayOfEmptyIsSentinel ==
    (pa.fn = "toArray" /\ pa.pc = "done" /\ pa.args[1] = << >>)
      => pa.result = <<ROOT_NAME>>

\* C14 as amended: toArray("") is the empty array: split gives the
\* one-element array holding the empty string, and that element is dropped
\* as a trailing empty element.
ToArrayOfEmptyIsEmpty ==
    (pa.fn = "toArray" /\ pa.args[1] = << >>)
      => /\ pa.pc \in {"pop", "done"} => pa.arr = <<ROOT_NAME>>
         /\ pa.pc = "done" => pa.result = << >>

\* C14 witness: toArray("") has returned
ToArrayOfEmptyIsEmptyWitness ==
    /\ pa.fn = "toArray"
    /\ pa.pc = "done"
    /\ ~pa.rendered
    /\ pa.args[1] = << >>
    /\ pa.arr = <<ROOT_NAME>>
    /\ pa.result = << >>

\* the names of p, after the root sentinel, are not empty, not control
\* segments and hold no separator
NormalizedAbsolute(p) ==
    /\ IsAbsolute(p)
    /\ \A j \in 2..Len(p) : ValidName(p[j])

\* C15: for every normalized absolute array p, the root alone included,
\* whose names are not empty and hold no separator, toArray(toString(p)) is
\* p; and toString of the root-only array is the separator character.
JoinInverseOfSplit ==
    /\ (pa.fn = "toArray" /\ pa.pc = "done" /\ pa.rendered
          /\ NormalizedAbsolute(pa.from))
         => pa.result = pa.from
    /\ (pa.fn = "toString" /\ pa.pc = "done" /\ pa.args[1] = <<ROOT_NAME>>)
         => pa.result = <<PATH_SEPERATOR>>

\* C15 witness: the root-only array has been rendered and split again
JoinInverseOfSplitWitness ==
    /\ pa.fn = "toArray"
    /\ pa.pc = "done"
    /\ pa.rendered
    /\ pa.from = <<ROOT_NAME>>
    /\ pa.args[1] = <<PATH_SEPERATOR>>
    /\ pa.arr = <<ROOT_NAME, ROOT_NAME>>
    /\ pa.result = <<ROOT_NAME>>

(***************************************************************************)
(* Claims about copyDir and ls, checked under SpecCopy.                    *)
(***************************************************************************)
\* node lies inside directory dir, at any depth
Inside(node, dir) == Len(node) > Len(dir) /\ IsPrefixOf(dir, node)
\* copyDir has both handles, and the destination lies inside the source
CopiesIntoItself(q) ==
    q.op = "copyDir" /\ q.phase = 2 /\ Inside(q.to, q.src)

\* the entries of the source that are not inside the destination
OutsideDestination(q) ==
    {n \in dirs \cup files : IsPrefixOf(q.src, n) /\ ~Inside(n, q.to)}

\* C16: when the destination of copyDir lies inside the source, at any
\* depth: the child that is the original destination is skipped at every
\* level (it is never requested at the destination and never iterated);
\* nothing inside the destination is read; at most one task is started for
\* each entry of the source outside the destination, so that the recursion
\* is finite; and when the call has returned the destination holds no copy
\* of itself that it did not hold before.
CopyDirIntoItselfStops ==
    \A p \in Procs :
        LET q == procs[p] IN
        CopiesIntoItself(q)
          => /\ \A t \in 1..Len(q.tasks) :
                  /\ q.tasks[t].from = q.to
                       => q.tasks[t].kind = "dir" /\ q.tasks[t].pc # "getDirectoryHandle"
                  /\ ~Inside(q.tasks[t].from, q.to)
                  /\ IsPrefixOf(q.src, q.tasks[t].from)
                  /\ IsPrefixOf(q.to, q.tasks[t].to)
             /\ \A t, u \in 1..Len(q.tasks) :
                  q.tasks[t].from = q.tasks[u].from => t = u
             /\ Len(q.tasks) <= Cardinality(OutsideDestination(q))
             /\ q.pc = "done"
                  => (SelfCopy(q.src, q.to) \in dirs \cup files => q.hadSelfCopy)

\* C16 witness: copyDir of / into /a/b has returned; two levels down, the
\* child /a/b of /a was skipped, the file /a/a was copied
CopyDirIntoItselfStopsWitness ==
    \E p \in Procs :
        LET q == procs[p] IN
        /\ CopiesIntoItself(q)
        /\ q.pc = "done"
        /\ q.src = RootNode
        /\ \E t \in 1..Len(q.tasks) :
             /\ q.tasks[t].kind = "dir"
             /\ q.tasks[t].from = q.to
             /\ q.tasks[t].pc = "done"
             /\ q.tasks[t].parent # 1
        /\ \E t \in 1..Len(q.tasks) :
             /\ q.tasks[t].kind = "file"
             /\ q.tasks[t].pc = "done"
             /\ q.tasks[t].to = q.to \o <<<<"a">>, <<"a">>>>

\* the task is still in flight
Running(task) == ~TaskSettled(task)

\* C17: when copyDir has returned successfully, every task it started, at
\* every level, is fulfilled: every file copy has stored its bytes and
\* closed its stream, every copyDirHelper has returned, and nothing is
\* still in flight.
CopyDirReturnsAfterItsTasks ==
    \A p \in Procs :
        LET q == procs[p] IN
        (q.op = "copyDir" /\ q.pc = "done")
          => \A t \in 1..Len(q.tasks) :
               /\ q.tasks[t].pc = "done"
               /\ q.tasks[t].kind = "file"
                    => /\ q.tasks[t].w.state = "closed"
                       /\ ContentOf(q.tasks[t].to) = q.tasks[t].blob

\* C17 witness: a copyDir has returned after a copyDirHelper below the first
\* level and a file copy below the first level
CopyDirReturnsAfterItsTasksWitness ==
    \E p \in Procs :
        LET q == procs[p] IN
        /\ q.op = "copyDir"
        /\ q.pc = "done"
        /\ \E t \in 1..Len(q.tasks) :
             /\ q.tasks[t].kind = "helper"
             /\ q.tasks[t].parent # 0
             /\ \E u \in 1..Len(q.tasks) :
                  /\ q.tasks[u].kind = "file"
                  /\ q.tasks[u].parent = t
                  /\ q.tasks[u].w.state = "closed"

\* C18: when copyDir, or ls with a filter, has failed because one of the
\* tasks it started at once failed (a file copy, a sub-directory copy, a
\* call of the filter: every copyDirHelper that failed did so at its
\* Promise.all), none of its tasks is still in flight.
FailsAfterSiblingsSettle ==
    \A p \in Procs :
        LET q == procs[p] IN
        (/\ q.op \in {"copyDir", "ls"}
         /\ q.pc = "failed"
         /\ Len(q.tasks) > 0
         /\ \A t \in 1..Len(q.tasks) :
              (q.tasks[t].kind = "helper" /\ q.tasks[t].pc = "failed")
                => q.tasks[t].at = "join")
          => \A t \in 1..Len(q.tasks) : ~Running(q.tasks[t])

(***************************************************************************)
(* Claims about copyFile and write, checked under SpecWrite.               *)
(***************************************************************************)
\* C19: a copyFile whose source and destination are the same file of the
\* backend, however each was given, does nothing: the step that learns it
\* ends the call successfully, no copy is started, so no writable stream is
\* opened, and the content of every file stays as it was.
CopyFileOntoItselfIsNoOp ==
    [][\A p \in Procs :
         (/\ procs[p].op = "copyFile"
          /\ procs'[p].op = "copyFile"
          /\ procs'[p].phase = 2
          /\ procs'[p].src = procs'[p].to)
           => /\ procs'[p].pc = "done"
              /\ procs'[p].tasks = << >>
              /\ procs'[p].w = NoStream
              /\ content' = content]_vars

\* in /a, copyFile has returned for the file /a/a as source and the relative
\* string "a" as destination
CopyFileOntoItselfIsNoOpWitness ==
    \E p \in Procs :
        LET q == procs[p] IN
        /\ q.op = "copyFile"
        /\ q.pc = "done"
        /\ q.phase = 2
        /\ q.src = <<<<"a">>, <<"a">>>>
        /\ q.to = q.src
        /\ q.dest = StringTarget(<<"a">>)
        /\ q.tasks = << >>
        /\ ContentOf(q.src) = <<"x">>

\* C20: write closes the stream it has opened on every way out: once write
\* has returned or thrown with a stream opened, close has been called on it
\* exactly once and the stream is no longer open; close is never called
\* twice.
WriteClosesItsStream ==
    \A p \in Procs :
        LET q == procs[p] IN
        q.op = "write"
          => /\ q.w.closes <= 1
             /\ (q.pc \in {"done", "failed"} /\ q.phase = 1)
                  => (q.w.state # "open" /\ q.w.closes = 1)

\* an appending write has thrown the error of its size lookup, after the
\* finally block has closed the stream
WriteClosesItsStreamWitness ==
    \E p \in Procs :
        LET q == procs[p] IN
        /\ q.op = "write"
        /\ q.append
        /\ q.pc = "failed"
        /\ q.caught = "BackendFailure"
        /\ q.err = "BackendFailure"
        /\ q.w.state = "closed"
        /\ q.w.closes = 1

(***************************************************************************)
(* Claims about what copyDir leaves behind, checked under SpecMirror.      *)
(***************************************************************************)
\* where the entry n of the source src is copied to under the destination to
Counterpart(src, to, n) == to \o SubSeq(n, Len(src) + 1, Len(n))

\* copyDir has returned successfully, and its destination is neither its
\* source nor inside its source
CopiedOutside(q) ==
    /\ q.op = "copyDir"
    /\ q.pc = "done"
    /\ q.phase = 2
    /\ q.src # q.to
    /\ ~Inside(q.to, q.src)

\* the entry n inside src has its like under to: a directory for a
\* directory, a file with the same bytes for a file
Mirrored(src, to, n) ==
    /\ n \in dirs => Counterpart(src, to, n) \in dirs
    /\ n \in files => /\ Counterpart(src, to, n) \in files
                      /\ ContentOf(Counterpart(src, to, n)) = ContentOf(n)

\* C21: when copyDir has returned successfully and its destination is
\* outside its source, the destination mirrors the source: every directory
\* inside the source is a directory at the same relative path under the
\* destination, every file inside the source is a file there with the same
\* bytes, and the only entries under the destination that the copy has
\* written or asked for are those of entries of the source.
CopyDirMirrorsSource ==
    \A p \in Procs :
        LET q == procs[p] IN
        CopiedOutside(q)
          => /\ \A n \in dirs \cup files :
                  Inside(n, q.src) => Mirrored(q.src, q.to, n)
             /\ \A t \in 1..Len(q.tasks) :
                  /\ q.tasks[t].from \in dirs \cup files
                  /\ IsPrefixOf(q.src, q.tasks[t].from)
                  /\ q.tasks[t].to = Counterpart(q.src, q.to, q.tasks[t].from)

(***************************************************************************)
(* Claims about the current directory, checked under SpecAll.              *)
(***************************************************************************)
\* the operations other than cd
NotCd == {"getDir", "getFile", "resolve", "pwd", "ls", "write", "copyFile", "copyDir"}

\* C22: while a call of getDir, getFile, resolve, pwd, ls, write, copyFile
\* or copyDir runs, and when it has returned or failed, current.handle and
\* current.path are what the call found; and rootHandle is the handle the
\* navigator was constructed with, whatever has been called.
OnlyCdChangesCurrent ==
    /\ rootHandle = RootNode
    /\ \A p \in Procs :
         procs[p].op \in NotCd => current = procs[p].before

\* C22 witness: away from root, a copyDir has failed after a copy it had
\* started went wrong
OnlyCdChangesCurrentWitness ==
    \E p \in Procs :
        /\ procs[p].op = "copyDir"
        /\ procs[p].pc = "failed"
        /\ Len(procs[p].tasks) > 0
        /\ current.path = <<ROOT_NAME, <<"a">>>>
        /\ current = procs[p].before

(***************************************************************************)
(* The empty result of normalize, checked under SpecPath.                  *)
(***************************************************************************)
\* from segment k on, with depth segments accumulated, the relative path
\* meets a ".." while nothing is accumulated
RECURSIVE Escapes(_, _, _)
Escapes(path, k, depth) ==
    IF k > Len(path) THEN FALSE
    ELSE IF path[k] = DOTDOT THEN depth = 0 \/ Escapes(path, k + 1, depth - 1)
    ELSE IF path[k] \in {ROOT_NAME, DOT} THEN Escapes(path, k + 1, depth)
    ELSE Escapes(path, k + 1, depth + 1)

\* C23: for a relative input that holds a name and allowUpstream = false,
\* normalize returns the empty sequence if and only if the path escapes
\* above its starting point; a path that stays at or below its starting
\* point does not normalize to the empty sequence.
EmptyOnlyOnEscape ==
    (/\ NormalizeDone
     /\ ~pa.allowUpstream
     /\ ~IsAbsolute(pa.args[1])
     /\ \E k \in 1..Len(pa.args[1]) : pa.args[1][k] \in Names)
      => (pa.result = << >> <=> Escapes(pa.args[1], 1, 0))

(***************************************************************************)
(* Walks that overlap with cd, checked under SpecWalk.                     *)
(***************************************************************************)
\* the current-directory state the call found held the handle of its path
FoundMatchingPair(q) == q.before.handle = NodeOf(q.before.path)

\* C24: a getDir or getFile that found a matching handle/path pair, and
\* during which a cd has changed the current directory, keeps working on
\* what it took from that pair before its first suspension: its target is
\* its path resolved against the path it found, it started from the handle
\* it found exactly when that path is a prefix of the target, every request
\* it has issued is on a directory on the way from the root to that target,
\* and when it returns it returns the entry that target names.
WalkKeepsItsSnapshot ==
    \A p \in Procs :
        LET q == procs[p]
            t == resolvePath(q.before.path, q.path)
        IN (q.op \in {"getDir", "getFile"} /\ FoundMatchingPair(q) /\ current # q.before)
             => /\ q.absolutePath = t
                /\ q.isChild = IsPrefixOf(q.before.path, t)
                /\ \A k \in 1..Len(q.calls) : IsPrefixOf(q.calls[k].on, NodeOf(t))
                /\ q.pc = "returned"
                     => /\ q.ret = NodeOf(t)
                        /\ q.ret \in (IF q.op = "getDir" THEN dirs ELSE files)

(***************************************************************************)
(* Copies of a missing source, checked under SpecAll.                      *)
(***************************************************************************)
\* no entry is at node: below a directory that exists, a segment is absent
Missing(node) ==
    \E k \in 1..Len(node) :
        /\ SubSeq(node, 1, k - 1) \in dirs
        /\ SubSeq(node, 1, k) \notin dirs \cup files

\* copyFile or copyDir is obtaining its source, given as a path, and no
\* entry is at that path
SourceMissing(q) ==
    /\ q.op \in {"copyFile", "copyDir"}
    /\ q.phase = 0
    /\ q.absolutePath # << >>
    /\ Missing(NodeOf(q.absolutePath))

\* C25: copyFile and copyDir obtain the source, without creating, before
\* they turn to the destination: while the source path names no entry, no
\* step creates an entry or changes a file, the call never gets its source,
\* it ends only by failing, and unless the backend has failed for a reason
\* of its own it fails with NotFoundError.
MissingSourceChangesNothing ==
    [][\A p \in Procs :
         SourceMissing(procs[p])
           => /\ dirs' = dirs
              /\ files' = files
              /\ content' = content
              /\ procs'[p].op # procs[p].op => procs[p].pc = "failed"
              /\ procs'[p].op = procs[p].op
                   => /\ procs'[p].phase = 0
                      /\ procs'[p].pc # "returned"
                      /\ procs'[p].pc = "failed"
                           => procs'[p].err \in {"NotFoundError", "BackendFailure"}]_vars

\* C25 witness: copyDir of the missing /b/b has failed with NotFoundError
\* after a first step of the walk succeeded, and its destination, which is
\* missing too, has not been created
MissingSourceChangesNothingWitness ==
    \E p \in Procs :
        LET q == procs[p] IN
        /\ SourceMissing(q)
        /\ q.op = "copyDir"
        /\ q.pc = "failed"
        /\ q.err = "NotFoundError"
        /\ Len(q.calls) = 2
        /\ ~q.dest.isHandle
        /\ Missing(NodeOf(resolvePath(q.before.path, q.dest.path)))

=============================================================================
